---- MODULE Spec2Model ----
(***************************************************************************)
(* Artifact resolution engine of zenml/utils/artifact_utils.py:            *)
(* load_artifact, load_artifact_visualization, save_model_metadata and      *)
(* load_model_from_metadata, with the environment they read (the zen       *)
(* store's stack components, the importable classes, the files).           *)
(*                                                                         *)
(* Every operation is synchronous, so one action is one complete call.      *)
(* The call's outcome, the steps it took and what it logged are recorded   *)
(* in the variable last.                                                   *)
(***************************************************************************)
EXTENDS Integers, Sequences, FiniteSets, TLC

VARIABLES
    artifact,     \* the ArtifactResponseModel handed to the operations
    components,   \* zen store: stack component id -> how it can be restored
    modules,      \* importable code: module name -> set of its attributes
    files,        \* every file there is: path -> contents
    torch,        \* whether `import torch.nn` succeeds in this environment
    last,         \* the last completed call: operation, inputs, result
    streak        \* how many load_artifact calls in a row ended with last

vars == <<artifact, components, modules, files, torch, last, streak>>

----------------------------------------------------------------------------
(* Bounds of the model. *)

\* The longest visualization list of a record.
MaxVis == 2

\* The longest run of consecutive load_artifact calls that is counted.
MaxStreak == 2

----------------------------------------------------------------------------
(* Values of the environment. *)

None == "None"

StoreIds == {"store-1"}

\* A stack component can be restored ("ok"), is registered but its flavor
\* cannot be imported here ("no_deps"), or is not in the zen store ("absent").
ComponentStates == {"ok", "no_deps", "absent"}

\* Source References: module path and qualified name.
Ref(m, a) == [module |-> m, attr |-> a]

MaterializerRefs == {Ref("zoo", "Materializer"), Ref("gone", "Materializer"),
                     Ref("zoo", "Removed")}

DataTypeRefs == {Ref("zoo", "Model"), Ref("zoo", "TorchNet"),
                 Ref("gone", "Model"), Ref("zoo", "Removed")}

\* The code installed in this environment.
Installed == [zoo |-> {"Materializer", "Model", "TorchNet"}]

\* The classes that are torch.nn.Module subclasses.
TorchModules == {Ref("zoo", "TorchNet")}

IMAGE == "image"
HTML == "html"
VisualizationType == {IMAGE, HTML}

ArtifactUri == <<"store", "artifact">>

\* The uris of visualization files; nothing is ever stored at VisGone.
Vis1 == <<"store", "vis-1">>
Vis2 == <<"store", "vis-2">>
VisGone == <<"store", "vis-gone">>
VisUris == {Vis1, Vis2, VisGone}

\* What the store can hold at the visualization uris.
VisFiles ==
    {[p \in {Vis1, Vis2} |-> IF p = Vis1 THEN <<77>> ELSE <<255, 216>>],
     [p \in {Vis1, Vis2} |-> IF p = Vis1 THEN <<77, 97, 110, 33, 10>>
                                         ELSE <<77, 97, 110>>]}

\* File contents are byte strings; 255 is a byte no UTF-8 text contains.
Contents == {<<77>>, <<77, 97>>, <<77, 97, 110>>, <<255>>}

METADATA_DATATYPE == "datatype"
METADATA_MATERIALIZER == "materializer"
MODEL_METADATA_YAML_FILE_NAME == "model_metadata.yaml"

----------------------------------------------------------------------------
(* Results of a call. *)

Return(v) == [kind |-> "return", value |-> v]

Raise(exc, cond, info) ==
    [kind |-> "raise", exc |-> exc, cond |-> cond, info |-> info]

\* What a call did: its outcome, the steps it took in order, its log lines.
Call(outcome, trace, logs) ==
    [outcome |-> outcome, trace |-> trace, logs |-> logs]

NoCall == [op |-> "none"]

----------------------------------------------------------------------------
(* Collaborators that are not part of artifact_utils.py. *)

\* source_utils.load: import the module, then get the attribute.
source_utils_load(source) ==
    IF source.module \notin DOMAIN modules
    THEN [ok |-> FALSE, exc |-> "ModuleNotFoundError", missing |-> source.module]
    ELSE IF source.attr \notin modules[source.module]
    THEN [ok |-> FALSE, exc |-> "AttributeError", missing |-> source.attr]
    ELSE [ok |-> TRUE, class |-> source]

\* str(e) of the error source_utils.load raises for a reference it cannot
\* resolve, as a sequence of text pieces: the import system's message for a
\* missing module, getattr's message for a missing attribute.
lookup_error_message(source) ==
    IF source.module \notin DOMAIN modules
    THEN <<"No module named ", source.module>>
    ELSE <<"module ", source.module, " has no attribute ", source.attr>>

\* Client().get_stack_component / zen_store.get_stack_component: the model of
\* the component, or KeyError when there is none.
get_stack_component(id) ==
    IF components[id] = "absent"
    THEN [ok |-> FALSE, exc |-> "KeyError"]
    ELSE [ok |-> TRUE, model |-> [id |-> id, name |-> id]]

\* StackComponent.from_model: the store object, or ImportError when the
\* flavor's dependencies are not installed.
from_model(component_model) ==
    IF components[component_model.id] = "no_deps"
    THEN [ok |-> FALSE, exc |-> "ImportError"]
    ELSE [ok |-> TRUE, store |-> [name |-> component_model.name]]

\* materializer_class(uri).load(artifact_class): reads what is stored at uri.
\* Whatever it raises is the materializer's own failure.
materializer_load(materializer_class, artifact_class, uri, fault) ==
    IF uri \notin DOMAIN files
    THEN Raise("FileNotFoundError", "materializer load failed", [uri |-> uri])
    ELSE IF fault # "none"
    THEN Raise("OSError", "materializer load failed", [uri |-> uri])
    ELSE Return([materializer |-> materializer_class,
                 data_type |-> artifact_class,
                 data |-> files[uri],
                 training |-> artifact_class \in TorchModules])

----------------------------------------------------------------------------
(* _load_artifact, lines 145-194. *)

\* _load_artifact with the error lines of the two lookups exchanged.
_load_artifact_mislabelled(materializer, data_type, uri, fault) ==
    LET m == source_utils_load(materializer)
        t == source_utils_load(data_type)
        errM == [level |-> "error", about |-> "materializer", names |-> materializer]
        errT == [level |-> "error", about |-> "data type", names |-> data_type]
    IN  IF ~m.ok
        THEN Call(Raise("ModuleNotFoundError", "materializer unresolvable",
                        [cause |-> m.exc, missing |-> m.missing,
                         message |-> lookup_error_message(materializer)]),
                  <<"load materializer">>, <<errT>>)
        ELSE IF ~t.ok
        THEN Call(Raise("ModuleNotFoundError", "data type unresolvable",
                        [cause |-> t.exc, missing |-> t.missing,
                         message |-> lookup_error_message(data_type)]),
                  <<"load materializer", "load data type">>, <<errM>>)
        ELSE Call(materializer_load(m.class, t.class, uri, fault),
                  <<"load materializer", "load data type",
                    "instantiate materializer", "materializer.load">>,
                  <<>>)

_load_artifact(materializer, data_type, uri, fault) ==
    LET m == source_utils_load(materializer)
        t == source_utils_load(data_type)
        errM == [level |-> "error", about |-> "materializer", names |-> materializer]
        errT == [level |-> "error", about |-> "data type", names |-> data_type]
    IN  IF ~m.ok
        THEN Call(Raise("ModuleNotFoundError", "materializer unresolvable",
                        [cause |-> m.exc, missing |-> m.missing,
                         message |-> lookup_error_message(materializer)]),
                  <<"load materializer">>, <<errM>>)
        ELSE IF ~t.ok
        THEN Call(Raise("ModuleNotFoundError", "data type unresolvable",
                        [cause |-> t.exc, missing |-> t.missing,
                         message |-> lookup_error_message(data_type)]),
                  <<"load materializer", "load data type">>, <<errT>>)
        ELSE Call(materializer_load(m.class, t.class, uri, fault),
                  <<"load materializer", "load data type",
                    "instantiate materializer", "materializer.load">>,
                  <<>>)

----------------------------------------------------------------------------
(* load_artifact, lines 109-142. *)

\* Lines 118-128 without the except clause.
RestoreStore_uncaught(art) ==
    IF art.artifact_store_id = None
    THEN [loaded |-> FALSE, raised |-> "", trace |-> <<>>]
    ELSE LET c == get_stack_component(art.artifact_store_id) IN
         IF ~c.ok
         THEN [loaded |-> FALSE, raised |-> c.exc,
               trace |-> <<"get_stack_component">>]
         ELSE IF ~from_model(c.model).ok
         THEN [loaded |-> FALSE, raised |-> from_model(c.model).exc,
               trace |-> <<"get_stack_component", "from_model">>]
         ELSE [loaded |-> TRUE, raised |-> "",
               trace |-> <<"get_stack_component", "from_model">>]

\* Lines 118-128: the store is restored; only KeyError is caught.
RestoreStore(art) ==
    IF art.artifact_store_id = None
    THEN [loaded |-> FALSE, raised |-> "", trace |-> <<>>]
    ELSE LET c == get_stack_component(art.artifact_store_id) IN
         IF ~c.ok
         THEN [loaded |-> FALSE, raised |-> "",
               trace |-> <<"get_stack_component">>]
         ELSE IF ~from_model(c.model).ok
         THEN [loaded |-> FALSE, raised |-> from_model(c.model).exc,
               trace |-> <<"get_stack_component", "from_model">>]
         ELSE [loaded |-> TRUE, raised |-> "",
               trace |-> <<"get_stack_component", "from_model">>]

\* A load_artifact that keeps the value of its last successful call.
load_artifact_cached(art, fault) ==
    LET s == RestoreStore(art)
        inner == _load_artifact(art.materializer, art.data_type, art.uri, fault)
    IN  IF last.op = "load_artifact" /\ last.artifact = art
           /\ last.call.outcome.kind = "return"
        THEN Call(last.call.outcome, <<"cached">>, <<>>)
        ELSE Call(inner.outcome, s.trace \o inner.trace, inner.logs)

load_artifact(art, fault) ==
    LET s == RestoreStore(art)
        warning == [level |-> "warning", about |-> "artifact store",
                    artifact |-> art.id]
        inner == _load_artifact(art.materializer, art.data_type, art.uri, fault)
    IN  IF s.raised # ""
        THEN Call(Raise(s.raised, "unclassified",
                        [store |-> art.artifact_store_id]),
                  s.trace, <<>>)
        ELSE IF ~s.loaded
        THEN Call(inner.outcome, s.trace \o <<"warning">> \o inner.trace,
                  <<warning>> \o inner.logs)
        ELSE Call(inner.outcome, s.trace \o inner.trace, inner.logs)

----------------------------------------------------------------------------
(* The artifact-loading specification. *)

Faults == {"none", "io_error"}

ArtifactRecords ==
    [id : {"artifact-1"},
     uri : {ArtifactUri},
     materializer : MaterializerRefs,
     data_type : DataTypeRefs,
     artifact_store_id : StoreIds \cup {None},
     visualizations : {<<>>}]

Init ==
    /\ artifact \in ArtifactRecords
    /\ components \in [StoreIds -> ComponentStates]
    /\ modules = Installed
    /\ files \in {[p \in {} |-> <<>>]}
                 \cup {[p \in {ArtifactUri} |-> c] : c \in Contents}
    /\ torch = FALSE
    /\ last = NoCall
    /\ streak = 0

LoadArtifact ==
    /\ \E fault \in Faults :
         last' = [op |-> "load_artifact", artifact |-> artifact,
                  fault |-> fault, call |-> load_artifact(artifact, fault)]
    /\ streak' = IF streak < MaxStreak THEN streak + 1 ELSE streak
    /\ UNCHANGED <<artifact, components, modules, files, torch>>

\* A producing step overwrites what is stored at the artifact's uri.
StoreWrite ==
    /\ \E c \in Contents :
         /\ (IF ArtifactUri \in DOMAIN files THEN files[ArtifactUri] # c
                                             ELSE TRUE)
         /\ files' = [p \in DOMAIN files \cup {ArtifactUri} |->
                        IF p = ArtifactUri THEN c ELSE files[p]]
    /\ last' = NoCall
    /\ streak' = 0
    /\ UNCHANGED <<artifact, components, modules, torch>>

Next == LoadArtifact \/ StoreWrite

Spec == Init /\ [][Next]_vars

----------------------------------------------------------------------------
(* base64.b64encode and the text decoding of a file opened in mode "r". *)

\* The ASCII code of the base64 digit for a 6-bit value.
B64Char(n) ==
    IF n < 26 THEN 65 + n
    ELSE IF n < 52 THEN 97 + (n - 26)
    ELSE IF n < 62 THEN 48 + (n - 52)
    ELSE IF n = 62 THEN 43 ELSE 47

B64Pad == 61

RECURSIVE b64encode(_)
b64encode(bytes) ==
    IF Len(bytes) = 0 THEN <<>>
    ELSE IF Len(bytes) = 1
    THEN <<B64Char(bytes[1] \div 4), B64Char((bytes[1] % 4) * 16),
           B64Pad, B64Pad>>
    ELSE IF Len(bytes) = 2
    THEN <<B64Char(bytes[1] \div 4),
           B64Char((bytes[1] % 4) * 16 + bytes[2] \div 16),
           B64Char((bytes[2] % 16) * 4), B64Pad>>
    ELSE <<B64Char(bytes[1] \div 4),
           B64Char((bytes[1] % 4) * 16 + bytes[2] \div 16),
           B64Char((bytes[2] % 16) * 4 + bytes[3] \div 64),
           B64Char(bytes[3] % 64)>>
         \o b64encode(SubSeq(bytes, 4, Len(bytes)))

\* A file read in text mode is decoded; a byte above 127 that starts no
\* UTF-8 sequence makes the read raise UnicodeDecodeError.
Decodable(bytes) == \A i \in DOMAIN bytes : bytes[i] < 128

----------------------------------------------------------------------------
(* _load_artifact_store_of_artifact, lines 250-295. *)

\* Lines 268-279 without the test for a null store id: the lookup of the
\* null id then raises KeyError.
_load_artifact_store_of_artifact_unchecked(art, zen_store) ==
    IF art.artifact_store_id = None
    THEN [ok |-> FALSE, trace |-> <<"get_stack_component">>,
          outcome |-> Raise("KeyError", "unclassified",
                            [store |-> art.artifact_store_id])]
    ELSE LET c == get_stack_component(art.artifact_store_id) IN
         IF ~c.ok
         THEN [ok |-> FALSE, trace |-> <<"get_stack_component">>,
               outcome |-> Raise(c.exc, "unclassified",
                                 [store |-> art.artifact_store_id])]
         ELSE IF ~from_model(c.model).ok
         THEN [ok |-> FALSE,
               trace |-> <<"get_stack_component", "from_model">>,
               outcome |-> Raise("NotImplementedError", "store unavailable",
                                 [artifact |-> art.id,
                                  store |-> c.model.name])]
         ELSE [ok |-> TRUE,
               trace |-> <<"get_stack_component", "from_model">>,
               store |-> from_model(c.model).store]

\* Lines 281-294 without the except clause: the ImportError of from_model
\* reaches the caller.
_load_artifact_store_of_artifact_uncaught(art, zen_store) ==
    IF art.artifact_store_id = None
    THEN [ok |-> FALSE, trace |-> <<>>,
          outcome |-> Raise("DoesNotExistException", "store was deleted",
                            [artifact |-> art.id])]
    ELSE LET client == IF zen_store = None THEN <<"Client().zen_store">>
                                           ELSE <<>>
             c == get_stack_component(art.artifact_store_id)
         IN  IF ~c.ok
             THEN [ok |-> FALSE,
                   trace |-> client \o <<"get_stack_component">>,
                   outcome |-> Raise(c.exc, "unclassified",
                                     [store |-> art.artifact_store_id])]
             ELSE IF ~from_model(c.model).ok
             THEN [ok |-> FALSE,
                   trace |-> client \o <<"get_stack_component", "from_model">>,
                   outcome |-> Raise(from_model(c.model).exc, "unclassified",
                                     [store |-> art.artifact_store_id])]
             ELSE [ok |-> TRUE,
                   trace |-> client \o <<"get_stack_component", "from_model">>,
                   store |-> from_model(c.model).store]

_load_artifact_store_of_artifact(art, zen_store) ==
    IF art.artifact_store_id = None
    THEN [ok |-> FALSE, trace |-> <<>>,
          outcome |-> Raise("DoesNotExistException", "store was deleted",
                            [artifact |-> art.id])]
    ELSE LET client == IF zen_store = None THEN <<"Client().zen_store">>
                                           ELSE <<>>
             c == get_stack_component(art.artifact_store_id)
         IN  IF ~c.ok
             THEN [ok |-> FALSE,
                   trace |-> client \o <<"get_stack_component">>,
                   outcome |-> Raise(c.exc, "unclassified",
                                     [store |-> art.artifact_store_id])]
             ELSE IF ~from_model(c.model).ok
             THEN [ok |-> FALSE,
                   trace |-> client \o <<"get_stack_component", "from_model">>,
                   outcome |-> Raise("NotImplementedError", "store unavailable",
                                     [artifact |-> art.id,
                                      store |-> c.model.name])]
             ELSE [ok |-> TRUE,
                   trace |-> client \o <<"get_stack_component", "from_model">>,
                   store |-> from_model(c.model).store]

----------------------------------------------------------------------------
(* _load_file_from_artifact_store, lines 298-333. *)

\* Lines 318-319 without the with statement: the stream is closed only
\* after a read that did not raise.
store_open_read_unscoped(uri, mode, fault) ==
    IF fault = "open_error"
    THEN [ok |-> FALSE, exc |-> "PermissionError", trace |-> <<"open">>]
    ELSE IF uri \notin DOMAIN files
    THEN [ok |-> FALSE, exc |-> "FileNotFoundError", trace |-> <<"open">>]
    ELSE IF fault = "read_error"
    THEN [ok |-> FALSE, exc |-> "OSError",
          trace |-> <<"open", "opened", "read">>]
    ELSE IF fault = "read_not_found"
    THEN [ok |-> FALSE, exc |-> "FileNotFoundError",
          trace |-> <<"open", "opened", "read">>]
    ELSE IF mode = "r" /\ ~Decodable(files[uri])
    THEN [ok |-> FALSE, exc |-> "UnicodeDecodeError",
          trace |-> <<"open", "opened", "read">>]
    ELSE [ok |-> TRUE, data |-> files[uri],
          trace |-> <<"open", "opened", "read", "close">>]

\* artifact_store.open(uri, mode) and text_file.read(): what the store gives
\* or raises. fault is what goes wrong in the store during this call.
\* The stream is opened in a with statement, which closes it whether read
\* returns or raises.
store_open_read(uri, mode, fault) ==
    IF fault = "open_error"
    THEN [ok |-> FALSE, exc |-> "PermissionError", trace |-> <<"open">>]
    ELSE IF uri \notin DOMAIN files
    THEN [ok |-> FALSE, exc |-> "FileNotFoundError", trace |-> <<"open">>]
    ELSE IF fault = "read_error"
    THEN [ok |-> FALSE, exc |-> "OSError",
          trace |-> <<"open", "opened", "read", "close">>]
    ELSE IF fault = "read_not_found"
    THEN [ok |-> FALSE, exc |-> "FileNotFoundError",
          trace |-> <<"open", "opened", "read", "close">>]
    ELSE IF mode = "r" /\ ~Decodable(files[uri])
    THEN [ok |-> FALSE, exc |-> "UnicodeDecodeError",
          trace |-> <<"open", "opened", "read", "close">>]
    ELSE [ok |-> TRUE, data |-> files[uri],
          trace |-> <<"open", "opened", "read", "close">>]

\* Lines 317-333 with the two except clauses in the other order: the
\* handler of Exception then takes FileNotFoundError too.
_load_file_from_artifact_store_swapped(uri, artifact_store, mode, fault) ==
    LET r == store_open_read(uri, mode, fault) IN
    IF r.ok
    THEN Call(Return(r.data), r.trace, <<>>)
    ELSE Call(Raise("NotImplementedError", "store cannot open file",
                    [uri |-> uri, store |-> artifact_store.name,
                     guidance |-> "credentials"]),
              r.trace,
              <<[level |-> "exception", about |-> r.exc]>>)

_load_file_from_artifact_store(uri, artifact_store, mode, fault) ==
    LET r == store_open_read(uri, mode, fault) IN
    IF r.ok
    THEN Call(Return(r.data), r.trace, <<>>)
    ELSE IF r.exc = "FileNotFoundError"
    THEN Call(Raise("DoesNotExistException", "visualization missing",
                    [uri |-> uri, store |-> artifact_store.name]),
              r.trace, <<>>)
    ELSE Call(Raise("NotImplementedError", "store cannot open file",
                    [uri |-> uri, store |-> artifact_store.name,
                     guidance |-> "credentials"]),
              r.trace,
              <<[level |-> "exception", about |-> r.exc]>>)

----------------------------------------------------------------------------
(* load_artifact_visualization, lines 197-247. *)

\* Lines 221-230 without the test for a negative index: Python then counts
\* a negative index from the end of the list.
select_visualization_negative(art, index) ==
    IF art.visualizations = <<>>
    THEN [ok |-> FALSE,
          outcome |-> Raise("DoesNotExistException", "no visualizations",
                            [artifact |-> art.id])]
    ELSE IF index >= Len(art.visualizations)
    THEN [ok |-> FALSE,
          outcome |-> Raise("DoesNotExistException", "index out of range",
                            [artifact |-> art.id,
                             count |-> Len(art.visualizations),
                             index |-> index])]
    ELSE [ok |-> TRUE,
          visualization |->
              art.visualizations[IF index < 0
                                 THEN Len(art.visualizations) + index + 1
                                 ELSE index + 1]]

\* Lines 221-230 without the test for an empty list.
select_visualization_unguarded(art, index) ==
    IF index < 0 \/ index >= Len(art.visualizations)
    THEN [ok |-> FALSE,
          outcome |-> Raise("DoesNotExistException", "index out of range",
                            [artifact |-> art.id,
                             count |-> Len(art.visualizations),
                             index |-> index])]
    ELSE [ok |-> TRUE, visualization |-> art.visualizations[index + 1]]

\* Lines 221-230: the visualization to load.
select_visualization(art, index) ==
    IF art.visualizations = <<>>
    THEN [ok |-> FALSE,
          outcome |-> Raise("DoesNotExistException", "no visualizations",
                            [artifact |-> art.id])]
    ELSE IF index < 0 \/ index >= Len(art.visualizations)
    THEN [ok |-> FALSE,
          outcome |-> Raise("DoesNotExistException", "index out of range",
                            [artifact |-> art.id,
                             count |-> Len(art.visualizations),
                             index |-> index])]
    ELSE [ok |-> TRUE, visualization |-> art.visualizations[index + 1]]

\* Line 236 with the two modes exchanged.
open_mode_swapped(visualization) ==
    IF visualization.type = IMAGE THEN "r" ELSE "rb"

\* Line 236: images are opened in binary mode, everything else as text.
open_mode(visualization) ==
    IF visualization.type = IMAGE THEN "rb" ELSE "r"

\* Lines 244-245 encoding whatever the type is.
encode_value_any_type(visualization, value, encode_image) ==
    IF encode_image THEN b64encode(value) ELSE value

\* Lines 244-245: image visualizations are encoded if requested.
encode_value(visualization, value, encode_image) ==
    IF visualization.type = IMAGE /\ encode_image
    THEN b64encode(value)
    ELSE value

\* Lines 220-247 with the store loaded before the visualization is
\* selected.
load_artifact_visualization_store_first(art, index, zen_store, encode_image, fault) ==
    LET s == _load_artifact_store_of_artifact(art, zen_store) IN
    IF ~s.ok
    THEN Call(s.outcome, s.trace, <<>>)
    ELSE
    LET v == select_visualization(art, index) IN
    IF ~v.ok
    THEN Call(v.outcome, s.trace, <<>>)
    ELSE
    LET mode == open_mode(v.visualization)
        f == _load_file_from_artifact_store(v.visualization.uri, s.store,
                                            mode, fault)
        steps == s.trace \o <<mode>> \o f.trace
    IN  IF f.outcome.kind = "raise"
        THEN Call(f.outcome, steps, f.logs)
        ELSE Call(Return([type |-> v.visualization.type,
                          value |-> encode_value(v.visualization,
                                                 f.outcome.value,
                                                 encode_image)]),
                  steps, f.logs)

load_artifact_visualization(art, index, zen_store, encode_image, fault) ==
    LET v == select_visualization(art, index) IN
    IF ~v.ok
    THEN Call(v.outcome, <<>>, <<>>)
    ELSE
    LET s == _load_artifact_store_of_artifact(art, zen_store)
        mode == open_mode(v.visualization)
    IN  IF ~s.ok
        THEN Call(s.outcome, s.trace, <<>>)
        ELSE
        LET f == _load_file_from_artifact_store(v.visualization.uri, s.store,
                                                mode, fault)
            steps == s.trace \o <<mode>> \o f.trace
        IN  IF f.outcome.kind = "raise"
            THEN Call(f.outcome, steps, f.logs)
            ELSE Call(Return([type |-> v.visualization.type,
                              value |-> encode_value(v.visualization,
                                                     f.outcome.value,
                                                     encode_image)]),
                      steps, f.logs)

----------------------------------------------------------------------------
(* The visualization-loading specification. *)

StoreFaults == {"none", "open_error", "read_error", "read_not_found"}

VisualizationModels == [type : VisualizationType, uri : VisUris]

\* Each visualization of a record is saved at a uri of its own.
VisualizationLists ==
    {l \in UNION {[1..n -> VisualizationModels] : n \in 0..MaxVis} :
        \A i, j \in DOMAIN l : l[i].uri = l[j].uri => i = j}

VisRecords ==
    [id : {"artifact-1"},
     uri : {ArtifactUri},
     materializer : {Ref("zoo", "Materializer")},
     data_type : {Ref("zoo", "Model")},
     artifact_store_id : StoreIds \cup {None},
     visualizations : VisualizationLists]

InitVis ==
    /\ artifact \in VisRecords
    /\ components \in [StoreIds -> ComponentStates]
    /\ modules = Installed
    /\ files \in VisFiles
    /\ torch = FALSE
    /\ last = NoCall
    /\ streak = 0

LoadArtifactVisualization ==
    /\ \E index \in -1..(MaxVis + 1), zen_store \in {None, "zen_store"},
          encode_image \in BOOLEAN, fault \in StoreFaults :
         last' = [op |-> "load_artifact_visualization",
                  artifact |-> artifact, index |-> index,
                  zen_store |-> zen_store, encode_image |-> encode_image,
                  fault |-> fault,
                  call |-> load_artifact_visualization(
                               artifact, index, zen_store, encode_image, fault)]
    /\ streak' = 0
    /\ UNCHANGED <<artifact, components, modules, files, torch>>

NextVis == LoadArtifactVisualization \/ LoadArtifact

SpecVis == InitVis /\ [][NextVis]_vars

----------------------------------------------------------------------------
(* The model metadata file: yaml_utils.write_yaml and read_yaml. *)

\* yaml.dump writes a mapping as one "key: value" line per key, keys sorted.
MetadataKeys == <<METADATA_DATATYPE, METADATA_MATERIALIZER>>

write_yaml(contents) ==
    LET present(k) == k \in DOMAIN contents
        keys == SelectSeq(MetadataKeys, present)
    IN  [i \in DOMAIN keys |-> <<keys[i], contents[keys[i]]>>]

\* yaml.safe_load gives back the mapping of the lines.
read_yaml(lines) ==
    [k \in {lines[i][1] : i \in DOMAIN lines} |->
        lines[CHOOSE i \in DOMAIN lines : lines[i][1] = k][2]]

\* Where tempfile.NamedTemporaryFile can create its file.
TmpNames == {"tmp-1.yaml", "tmp-2.yaml"}

TmpPaths == {<<"tmp", n>> : n \in TmpNames}

\* The directory the model is served from.
ModelUri == <<"model">>

\* os.path.join(model_uri, MODEL_METADATA_YAML_FILE_NAME)
path_join(dir, name) == Append(dir, name)

----------------------------------------------------------------------------
(* save_model_metadata, lines 46-70. *)

\* Lines 62-64 with the two values under each other's key.
model_metadata_swapped(model_artifact) ==
    [k \in {METADATA_DATATYPE, METADATA_MATERIALIZER} |->
        IF k = METADATA_DATATYPE THEN model_artifact.materializer
                                 ELSE model_artifact.data_type]

\* Lines 62-64: the metadata of a model artifact.
model_metadata(model_artifact) ==
    [k \in {METADATA_DATATYPE, METADATA_MATERIALIZER} |->
        IF k = METADATA_DATATYPE THEN model_artifact.data_type
                                 ELSE model_artifact.materializer]

\* What can go wrong while the temporary file is created and written.
SaveFaults == {"none", "open_error", "write_error"}

\* Lines 66-70: the call made with the temporary file created at path tmp.
\* The file is opened in a with statement, which closes it whether
\* write_yaml returns or raises.
save_model_metadata(model_artifact, tmp, fault) ==
    IF fault = "open_error"
    THEN Call(Raise("OSError", "unclassified", [uri |-> tmp]),
              <<"open">>, <<>>)
    ELSE IF fault = "write_error"
    THEN Call(Raise("OSError", "unclassified", [uri |-> tmp]),
              <<"open", "opened", "write_yaml", "close">>, <<>>)
    ELSE Call(Return(tmp), <<"open", "opened", "write_yaml", "close">>, <<>>)

\* The files after save_model_metadata: the file at tmp is kept
\* (delete=False), empty when write_yaml failed.
save_model_metadata_files(model_artifact, tmp, fault) ==
    IF fault = "open_error"
    THEN files
    ELSE [p \in DOMAIN files \cup {tmp} |->
            IF p # tmp THEN files[p]
            ELSE IF fault = "write_error" THEN <<>>
            ELSE write_yaml(model_metadata(model_artifact))]

----------------------------------------------------------------------------
(* load_model_from_metadata, lines 73-106. *)

\* fileio.open of a path for reading: a path below a regular file is no
\* directory entry, a path nothing is stored at is not found.
fileio_open(path) ==
    IF \E n \in 1..(Len(path) - 1) : SubSeq(path, 1, n) \in TmpPaths
    THEN [ok |-> FALSE, exc |-> "NotADirectoryError"]
    ELSE IF path \notin DOMAIN files
    THEN [ok |-> FALSE, exc |-> "FileNotFoundError"]
    ELSE [ok |-> TRUE, data |-> files[path]]

\* Lines 97-104 with eval() called on whatever was loaded.
switch_to_eval_always(model) ==
    [model |-> [model EXCEPT !.training = FALSE],
     trace |-> <<"import torch.nn", "model.eval">>]

\* Lines 97-104: a torch module is switched to evaluation mode.
switch_to_eval(model) ==
    IF torch /\ model.data_type \in TorchModules
    THEN [model |-> [model EXCEPT !.training = FALSE],
          trace |-> <<"import torch.nn", "model.eval">>]
    ELSE [model |-> model,
          trace |-> IF torch THEN <<"import torch.nn">> ELSE <<>>]

\* What can go wrong in load_model_from_metadata: the file cannot be
\* parsed, or the materializer fails.
ModelFaults == Faults \cup {"yaml_error"}

load_model_from_metadata(model_uri, fault) ==
    LET f == fileio_open(path_join(model_uri, MODEL_METADATA_YAML_FILE_NAME))
        NoMetadata == [k \in {} |-> None]
    IN  IF ~f.ok
        THEN [outcome |-> Raise(f.exc, "metadata file not found",
                                [uri |-> model_uri]),
              trace |-> <<"open">>, logs |-> <<>>, metadata |-> NoMetadata]
        ELSE IF fault = "yaml_error"
        THEN [outcome |-> Raise("YAMLError", "unclassified",
                                [uri |-> model_uri]),
              trace |-> <<"open", "opened", "read_yaml", "close">>,
              logs |-> <<>>, metadata |-> NoMetadata]
        ELSE
        LET metadata == read_yaml(f.data)
            opened == <<"open", "opened", "read_yaml", "close">>
        IN  IF METADATA_DATATYPE \notin DOMAIN metadata
               \/ METADATA_MATERIALIZER \notin DOMAIN metadata
            THEN [outcome |-> Raise("KeyError", "unclassified",
                                    [uri |-> model_uri]),
                  trace |-> opened, logs |-> <<>>, metadata |-> metadata]
            ELSE
            LET inner == _load_artifact(metadata[METADATA_MATERIALIZER],
                                        metadata[METADATA_DATATYPE],
                                        model_uri, fault)
            IN  IF inner.outcome.kind = "raise"
                THEN [outcome |-> inner.outcome,
                      trace |-> opened \o inner.trace,
                      logs |-> inner.logs, metadata |-> metadata]
                ELSE [outcome |->
                          Return(switch_to_eval(inner.outcome.value).model),
                      trace |-> opened \o inner.trace
                                \o switch_to_eval(inner.outcome.value).trace,
                      logs |-> inner.logs, metadata |-> metadata]

----------------------------------------------------------------------------
(* The model-metadata specification. *)

\* Without torch its module classes cannot be imported either.
InstalledWithout ==
    [m \in DOMAIN Installed |-> Installed[m] \ {r.attr : r \in TorchModules}]

InitModel ==
    /\ artifact \in ArtifactRecords
    /\ artifact.artifact_store_id = None
    /\ components \in [StoreIds -> {"ok"}]
    /\ torch \in BOOLEAN
    /\ modules = IF torch THEN Installed ELSE InstalledWithout
    /\ files \in {[p \in {} |-> <<>>],
                  [p \in {ModelUri} |-> <<77, 97, 110>>]}
    /\ last = NoCall
    /\ streak = 0

SaveModelMetadata ==
    /\ \E tmp \in TmpPaths, fault \in SaveFaults :
         /\ tmp \notin DOMAIN files
         /\ files' = save_model_metadata_files(artifact, tmp, fault)
         /\ last' = [op |-> "save_model_metadata", artifact |-> artifact,
                     fault |-> fault,
                     call |-> save_model_metadata(artifact, tmp, fault)]
    /\ streak' = 0
    /\ UNCHANGED <<artifact, components, modules, torch>>

\* The deployment step copies a metadata file that save_model_metadata
\* returned into the model's directory under the well-known name.
DeployMetadata ==
    /\ \E tmp \in TmpPaths :
         /\ tmp \in DOMAIN files
         /\ files[tmp] # <<>>
         /\ LET target == path_join(ModelUri, MODEL_METADATA_YAML_FILE_NAME)
            IN  /\ target \notin DOMAIN files
                /\ files' = [p \in DOMAIN files \cup {target} |->
                               IF p = target THEN files[tmp] ELSE files[p]]
         /\ last' = [op |-> "deploy", source |-> tmp]
    /\ streak' = 0
    /\ UNCHANGED <<artifact, components, modules, torch>>

LoadModelFromMetadata ==
    /\ \E model_uri \in {ModelUri} \cup (TmpPaths \cap DOMAIN files),
          fault \in ModelFaults :
         last' = [op |-> "load_model_from_metadata", artifact |-> artifact,
                  model_uri |-> model_uri, fault |-> fault,
                  call |-> load_model_from_metadata(model_uri, fault)]
    /\ streak' = 0
    /\ UNCHANGED <<artifact, components, modules, files, torch>>

NextModel == SaveModelMetadata \/ DeployMetadata \/ LoadModelFromMetadata

SpecModel == InitModel /\ [][NextModel]_vars

----------------------------------------------------------------------------
(* The two operations that reconstruct through _load_artifact, side by side:
   load_artifact on the record, load_model_from_metadata on the metadata
   saved from it. *)

InitResolve ==
    /\ artifact \in ArtifactRecords
    /\ components \in [StoreIds -> ComponentStates]
    /\ torch \in BOOLEAN
    /\ modules = IF torch THEN Installed ELSE InstalledWithout
    /\ files = [p \in {ModelUri, ArtifactUri} |-> <<77, 97, 110>>]
    /\ last = NoCall
    /\ streak = 0

NextResolve ==
    \/ LoadArtifact
    \/ SaveModelMetadata
    \/ DeployMetadata
    \/ LoadModelFromMetadata

SpecResolve == InitResolve /\ [][NextResolve]_vars

----------------------------------------------------------------------------
(* The three operations that open files, side by side: a record with one
   visualization in a store that can be instantiated, its model metadata
   saved, deployed and loaded. *)

StreamRecords ==
    {r \in VisRecords : Len(r.visualizations) = 1}

InitStreams ==
    /\ artifact \in StreamRecords
    /\ components \in [StoreIds -> {"ok"}]
    /\ modules = Installed
    /\ files \in VisFiles
    /\ torch = FALSE
    /\ last = NoCall
    /\ streak = 0

NextStreams ==
    \/ LoadArtifactVisualization
    \/ SaveModelMetadata
    \/ DeployMetadata
    \/ LoadModelFromMetadata

SpecStreams == InitStreams /\ [][NextStreams]_vars

----------------------------------------------------------------------------
(* Claims about load_artifact. *)

Environment == <<artifact, components, modules, files, torch>>

LastIs(op) == last.op = op

Outcome == last.call.outcome

Steps == {last.call.trace[i] : i \in DOMAIN last.call.trace}

Logged(level, about) ==
    {l \in {last.call.logs[i] : i \in DOMAIN last.call.logs} :
        l.level = level /\ l.about = about}

StoreResolves(art) ==
    /\ art.artifact_store_id # None
    /\ components[art.artifact_store_id] = "ok"

\* C1: a record whose materializer reference cannot be resolved makes
\* load_artifact end in the "materializer unresolvable" failure naming that
\* reference, without looking up the data type and without instantiating a
\* materializer or asking it to load.
C1_MaterializerShortCircuits ==
    (LastIs("load_artifact") /\ ~source_utils_load(last.artifact.materializer).ok)
    => /\ Outcome.kind = "raise"
       /\ Outcome.cond = "materializer unresolvable"
       /\ \E l \in Logged("error", "materializer") :
             l.names = last.artifact.materializer
       /\ Steps \cap {"load data type", "instantiate materializer",
                      "materializer.load"} = {}

C8_StoreFailureNonFatal ==
    (/\ LastIs("load_artifact")
     /\ last.artifact.artifact_store_id # None
     /\ ~StoreResolves(last.artifact))
    => /\ Logged("warning", "artifact store") # {}
       /\ Outcome = _load_artifact(last.artifact.materializer,
                                   last.artifact.data_type,
                                   last.artifact.uri, last.fault).outcome

----------------------------------------------------------------------------
(* Claims about load_artifact_visualization. *)

LastVis == LastIs("load_artifact_visualization")

\* The condition the last call failed with, or "returned".
Cond == IF Outcome.kind = "raise" THEN Outcome.cond ELSE "returned"

Exc == IF Outcome.kind = "raise" THEN Outcome.exc ELSE "none"

Count == Len(last.artifact.visualizations)

IndexInRange == 0 <= last.index /\ last.index < Count

\* The descriptor the last call asked for.
Requested == last.artifact.visualizations[last.index + 1]

\* The inverse of base64: four digits give up to three bytes.
B64Val(c) == CHOOSE n \in 0..63 : B64Char(n) = c

RECURSIVE b64decode(_)
b64decode(text) ==
    IF Len(text) < 4 THEN <<>>
    ELSE LET a == B64Val(text[1])
             b == B64Val(text[2])
             rest == b64decode(SubSeq(text, 5, Len(text)))
         IN  IF text[3] = B64Pad
             THEN <<a * 4 + b \div 16>>
             ELSE IF text[4] = B64Pad
             THEN <<a * 4 + b \div 16,
                    (b % 16) * 16 + B64Val(text[3]) \div 4>>
             ELSE <<a * 4 + b \div 16,
                    (b % 16) * 16 + B64Val(text[3]) \div 4,
                    (B64Val(text[3]) % 4) * 64 + B64Val(text[4])>> \o rest

\* C3 as stated: a record without a store id makes
\* load_artifact_visualization fail with "store was deleted", whatever the
\* index and the visualization list are.
C3_AlwaysStoreDeleted ==
    (LastVis /\ last.artifact.artifact_store_id = None)
    => Cond = "store was deleted"

\* C3 as amended: a record without a store id makes
\* load_artifact_visualization fail with "store was deleted" when the list is
\* not empty and the index is in range; else the call fails with "no
\* visualizations" or "index out of range"; it never fails with "store
\* unavailable", with an unclassified exception, or returns.
C3_StoreDeleted ==
    (LastVis /\ last.artifact.artifact_store_id = None)
    => /\ Exc = "DoesNotExistException"
       /\ Cond = IF Count = 0 THEN "no visualizations"
                 ELSE IF ~IndexInRange THEN "index out of range"
                 ELSE "store was deleted"

C3_Witness ==
    /\ LastVis
    /\ last.artifact.artifact_store_id = None
    /\ Count = 2 /\ last.index = 1
    /\ Cond = "store was deleted"

\* C4: with N >= 1 visualizations, an index outside [0, N) fails with the
\* "index out of range" DoesNotExistException naming N; an index inside
\* passes the check and, when the store resolves and the file can be read,
\* the call returns the type and the contents of the descriptor at that index.
C4_IndexRange ==
    (LastVis /\ Count >= 1)
    => /\ ~IndexInRange
          => /\ Exc = "DoesNotExistException"
             /\ Cond = "index out of range"
             /\ Outcome.info.count = Count
       /\ IndexInRange
          => /\ Cond \notin {"index out of range", "no visualizations"}
             /\ (/\ StoreResolves(last.artifact)
                 /\ store_open_read(Requested.uri, open_mode(Requested),
                                    last.fault).ok)
                => /\ Outcome.kind = "return"
                   /\ Outcome.value.type = Requested.type
                   /\ IF Requested.type = IMAGE /\ last.encode_image
                      THEN b64decode(Outcome.value.value) = files[Requested.uri]
                      ELSE Outcome.value.value = files[Requested.uri]

\* The last of two visualizations has been loaded.
C4_Witness ==
    /\ LastVis
    /\ Count = 2 /\ last.index = 1
    /\ Outcome.kind = "return"
    /\ last.artifact.visualizations[1] # last.artifact.visualizations[2]
    /\ Outcome.value.type = HTML
    /\ Outcome.value.value = <<77, 97, 110>>

\* C5: a record with an empty visualization list makes
\* load_artifact_visualization fail with "no visualizations" for index 0 and
\* for every other index, never with "index out of range".
C5_NoVisualizations ==
    (LastVis /\ Count = 0)
    => /\ Exc = "DoesNotExistException"
       /\ Cond = "no visualizations"

C5_Witness ==
    /\ LastVis
    /\ Count = 0 /\ last.index = 0
    /\ Cond = "no visualizations"

C9_StoreGoneAlwaysFatal ==
    (/\ LastIs("load_artifact") \/ LastVis
     /\ \/ last.artifact.artifact_store_id = None
        \/ components[last.artifact.artifact_store_id] = "absent")
    => Cond = "store was deleted"

\* C9 as amended: past its list and index checks, load_artifact_visualization
\* fails with "store was deleted" when the store id is null and with the
\* KeyError of the lookup when no component has that id, never with "store
\* unavailable"; load_artifact does not fail over a missing store: it logs a
\* warning and its outcome is the one of _load_artifact.
C9_StoreGone ==
    /\ (LastVis /\ Count >= 1 /\ IndexInRange)
       => /\ last.artifact.artifact_store_id = None
             => (Exc = "DoesNotExistException" /\ Cond = "store was deleted")
          /\ (/\ last.artifact.artifact_store_id # None
              /\ components[last.artifact.artifact_store_id] = "absent")
             => (Exc = "KeyError" /\ Cond = "unclassified")
    /\ (/\ LastIs("load_artifact")
        /\ \/ last.artifact.artifact_store_id = None
           \/ components[last.artifact.artifact_store_id] = "absent")
       => /\ Logged("warning", "artifact store") # {}
          /\ Outcome = _load_artifact(last.artifact.materializer,
                                      last.artifact.data_type,
                                      last.artifact.uri, last.fault).outcome

\* load_artifact went on after the lookup of the store's component failed.
C9_Witness ==
    /\ LastIs("load_artifact")
    /\ last.artifact.artifact_store_id # None
    /\ components[last.artifact.artifact_store_id] = "absent"
    /\ "materializer.load" \in Steps

\* C10: once the visualization file is being read from the resolved store, a
\* file-not-found from open or read is reported as the "visualization
\* missing" DoesNotExistException naming the uri and the store, any other
\* exception as the "store cannot open file" NotImplementedError with the
\* credentials guidance; no raw exception reaches the caller and no value is
\* returned.
C10_FileErrorsTranslated ==
    (LastVis /\ "open" \in Steps
        /\ ~store_open_read(Requested.uri, open_mode(Requested), last.fault).ok)
    => LET raw == store_open_read(Requested.uri, open_mode(Requested),
                                  last.fault).exc
       IN  /\ Outcome.kind = "raise"
           /\ Outcome.info.uri = Requested.uri
           /\ Outcome.info.store = last.artifact.artifact_store_id
           /\ IF raw = "FileNotFoundError"
              THEN Exc = "DoesNotExistException"
                   /\ Cond = "visualization missing"
              ELSE Exc = "NotImplementedError"
                   /\ Cond = "store cannot open file"
                   /\ Outcome.info.guidance = "credentials"

\* Reading failed with file-not-found after the file had been opened.
C10_Witness ==
    /\ LastVis
    /\ last.fault = "read_not_found"
    /\ Steps = {"Client().zen_store", "get_stack_component", "from_model",
                "rb", "open", "opened", "read", "close"}
    /\ Cond = "visualization missing"

\* Opening failed for a reason other than a missing file.
C10_WitnessOther ==
    /\ LastVis
    /\ last.fault = "open_error"
    /\ Cond = "store cannot open file"

----------------------------------------------------------------------------
(* Claims about save_model_metadata and load_model_from_metadata. *)

MetadataPath == path_join(ModelUri, MODEL_METADATA_YAML_FILE_NAME)

\* C2 as stated: load_model_from_metadata called on the path that the
\* preceding save_model_metadata returned finds the metadata file and reads
\* back the datatype and the materializer that were written.
C2_RoundTripOnReturnedPath ==
    [][(/\ LastIs("save_model_metadata")
        /\ last.call.outcome.kind = "return"
        /\ last'.op = "load_model_from_metadata"
        /\ last'.model_uri = last.call.outcome.value)
       => /\ last'.call.outcome.kind = "raise"
             => last'.call.outcome.cond # "metadata file not found"
          /\ DOMAIN last'.call.metadata
               = {METADATA_DATATYPE, METADATA_MATERIALIZER}]_vars

\* C2 as amended: unless creating or writing the temporary file fails,
\* save_model_metadata returns the path of a file holding exactly the
\* record's data_type under "datatype" and its materializer under
\* "materializer"; load_model_from_metadata on a directory that holds a
\* copy of that file under the well-known name finds it and, unless the
\* file fails to parse, reads back these two values and reconstructs with exactly that pair; called on the returned
\* path itself it fails to find the metadata file.
C2_RoundTrip ==
    /\ (LastIs("save_model_metadata") /\ last.fault = "none")
       => /\ Outcome.kind = "return"
          /\ Outcome.value \in DOMAIN files
          /\ read_yaml(files[Outcome.value])
               = [k \in {METADATA_DATATYPE, METADATA_MATERIALIZER} |->
                    IF k = METADATA_DATATYPE THEN last.artifact.data_type
                    ELSE last.artifact.materializer]
    /\ (/\ LastIs("load_model_from_metadata")
        /\ last.model_uri = ModelUri
        /\ MetadataPath \in DOMAIN files
        /\ last.fault # "yaml_error")
       => /\ Cond # "metadata file not found"
          /\ last.call.metadata[METADATA_DATATYPE] = last.artifact.data_type
          /\ last.call.metadata[METADATA_MATERIALIZER]
               = last.artifact.materializer
          /\ Outcome.kind = "return"
             => /\ Outcome.value.data_type = last.artifact.data_type
                /\ Outcome.value.materializer = last.artifact.materializer
          /\ Cond = "materializer unresolvable"
             => ~source_utils_load(last.artifact.materializer).ok
          /\ Cond = "data type unresolvable"
             => ~source_utils_load(last.artifact.data_type).ok
    /\ (LastIs("load_model_from_metadata") /\ last.model_uri \in TmpPaths)
       => Cond = "metadata file not found"

\* A model has been reconstructed from the deployed copy of the metadata.
C2_Witness ==
    /\ LastIs("load_model_from_metadata")
    /\ last.model_uri = ModelUri
    /\ Outcome.kind = "return"
    /\ Outcome.value.data_type = Ref("zoo", "TorchNet")
    /\ Outcome.value.materializer = Ref("zoo", "Materializer")

----------------------------------------------------------------------------
(* Claims about the store of a visualization. *)

\* C11: in load_artifact_visualization with a store id set and a valid
\* index, a store that cannot be instantiated because its dependencies are
\* missing makes the call fail with the "store unavailable"
\* NotImplementedError naming the store, never with the raw ImportError or
\* with "store was deleted", and no file is opened.
C11_StoreUnavailable ==
    (/\ LastVis
     /\ IndexInRange
     /\ last.artifact.artifact_store_id # None
     /\ components[last.artifact.artifact_store_id] = "no_deps")
    => /\ Exc = "NotImplementedError"
       /\ Cond = "store unavailable"
       /\ Outcome.info.store = last.artifact.artifact_store_id
       /\ Outcome.info.artifact = last.artifact.id
       /\ "from_model" \in Steps
       /\ "open" \notin Steps

\* The second visualization was asked of a store without its dependencies.
C11_Witness ==
    /\ LastVis
    /\ Count = 2 /\ last.index = 1
    /\ last.artifact.artifact_store_id # None
    /\ components[last.artifact.artifact_store_id] = "no_deps"
    /\ Cond = "store unavailable"

----------------------------------------------------------------------------
(* Claims about references that cannot be resolved. *)

\* The last call is one that got as far as having a pair of references to
\* resolve: load_artifact, or load_model_from_metadata that read its metadata.
HasReferences ==
    \/ LastIs("load_artifact")
    \/ LastIs("load_model_from_metadata") /\ DOMAIN last.call.metadata # {}

MaterializerGiven ==
    IF LastIs("load_artifact") THEN last.artifact.materializer
    ELSE last.call.metadata[METADATA_MATERIALIZER]

DataTypeGiven ==
    IF LastIs("load_artifact") THEN last.artifact.data_type
    ELSE last.call.metadata[METADATA_DATATYPE]

AnyUnresolved ==
    \/ ~source_utils_load(MaterializerGiven).ok
    \/ ~source_utils_load(DataTypeGiven).ok

\* The reference whose lookup fails first, and what it is a reference to.
FirstUnresolved ==
    IF ~source_utils_load(MaterializerGiven).ok
    THEN [role |-> "materializer", ref |-> MaterializerGiven]
    ELSE [role |-> "data type", ref |-> DataTypeGiven]

\* The text of the exception the caller receives, when it has one.
Message ==
    IF Outcome.kind = "raise" /\ "message" \in DOMAIN Outcome.info
    THEN Outcome.info.message
    ELSE <<>>

\* The literal string of a reference, as pieces of text.
LiteralString(ref) == <<ref.module, ".", ref.attr>>

\* part occurs in msg as consecutive pieces.
Carries(msg, part) ==
    \E i \in 0..(Len(msg) - Len(part)) :
        SubSeq(msg, i + 1, i + Len(part)) = part

----------------------------------------------------------------------------
(* Claims about the evaluation-mode adjustment. *)

\* What _load_artifact gives for the metadata the last call read.
Reconstructed ==
    _load_artifact(MaterializerGiven, DataTypeGiven, last.model_uri,
                   last.fault).outcome

\* The value is an instance of torch.nn.Module.
ExposesEval(value) == torch /\ value.data_type \in TorchModules

\* C13: load_model_from_metadata calls eval() exactly when the model was
\* reconstructed and is a torch module, once, and returns it switched to
\* evaluation mode; a reconstructed value without that capability, torch
\* installed or not, is returned as loaded without any error; when the
\* metadata was not read or reconstruction failed, eval() is not called
\* and the failure is the one of the read or of the reconstruction.
C13_EvalWhenCapable ==
    LastIs("load_model_from_metadata")
    => /\ "model.eval" \in Steps
          <=> /\ HasReferences
              /\ Reconstructed.kind = "return"
              /\ ExposesEval(Reconstructed.value)
       /\ "model.eval" \in Steps
          => /\ Cardinality({i \in DOMAIN last.call.trace :
                                last.call.trace[i] = "model.eval"}) = 1
             /\ last.call.trace[Len(last.call.trace)] = "model.eval"
             /\ Outcome = Return([Reconstructed.value
                                     EXCEPT !.training = FALSE])
       /\ (HasReferences /\ "model.eval" \notin Steps)
          => Outcome = Reconstructed
       /\ ~HasReferences => Outcome.kind = "raise"

\* A torch module has been reconstructed and switched to evaluation mode.
C13_Witness ==
    /\ LastIs("load_model_from_metadata")
    /\ torch
    /\ Outcome.kind = "return"
    /\ Outcome.value.data_type \in TorchModules
    /\ ~Outcome.value.training
    /\ "model.eval" \in Steps

\* A value that is no torch module has been reconstructed where torch is
\* not installed, and returned as loaded.
C13_WitnessSkipped ==
    /\ LastIs("load_model_from_metadata")
    /\ ~torch
    /\ Outcome.kind = "return"
    /\ Outcome = Reconstructed
    /\ "model.eval" \notin Steps

----------------------------------------------------------------------------
(* Claims about open streams. *)

\* The last step is a call of one of the operations that open a file.
OpensFiles ==
    last.op \in {"load_artifact_visualization", "load_model_from_metadata",
                 "save_model_metadata"}

\* The positions of the last call's trace at which step happened.
At(step) == {i \in DOMAIN last.call.trace : last.call.trace[i] = step}

\* C14: when load_artifact_visualization, load_model_from_metadata or
\* save_model_metadata has returned or failed, every stream it opened has
\* been closed, also when reading, parsing or writing failed after the open:
\* each successful open is followed by a close, and there are as many
\* closes as successful opens.
C14_StreamsClosed ==
    OpensFiles
    => /\ Cardinality(At("opened")) = Cardinality(At("close"))
       /\ \A i \in At("opened") :
             \E j \in At("close") :
                /\ i < j
                /\ \A k \in At("opened") : k <= i \/ k > j

\* Reading a visualization failed after the store had opened the file.
C14_Witness ==
    /\ LastVis
    /\ last.fault = "read_error"
    /\ Exc = "NotImplementedError"
    /\ At("opened") # {}
    /\ At("close") # {}

\* Parsing the metadata failed after the file had been opened.
C14_WitnessParse ==
    /\ LastIs("load_model_from_metadata")
    /\ last.fault = "yaml_error"
    /\ Outcome.kind = "raise"
    /\ At("opened") # {}
    /\ At("close") # {}

\* Writing the metadata failed after the temporary file had been opened.
C14_WitnessWrite ==
    /\ LastIs("save_model_metadata")
    /\ last.fault = "write_error"
    /\ Outcome.kind = "raise"
    /\ At("opened") # {}
    /\ At("close") # {}

----------------------------------------------------------------------------
(* Claims about the order of the checks in load_artifact_visualization. *)

\* The state of the component the record's store id stands for.
StoreState ==
    IF last.artifact.artifact_store_id = None THEN "none"
    ELSE components[last.artifact.artifact_store_id]

\* The steps of looking the store up and instantiating it.
LookupSteps == {"Client().zen_store", "get_stack_component", "from_model"}

\* C15: load_artifact_visualization checks for an empty list, then the
\* index range, then the presence of a store id, then looks the store up
\* and instantiates it, then opens the file. The call fails with the
\* condition of the first of these that fails and starts none of the later
\* ones: with an empty list or an index out of range nothing is looked up,
\* instantiated or opened, whatever the state of the store.
C15_ValidationOrder ==
    LastVis
    => /\ Count = 0
          => Cond = "no visualizations" /\ last.call.trace = <<>>
       /\ (Count > 0 /\ ~IndexInRange)
          => Cond = "index out of range" /\ last.call.trace = <<>>
       /\ (IndexInRange /\ StoreState = "none")
          => Cond = "store was deleted" /\ last.call.trace = <<>>
       /\ (IndexInRange /\ StoreState = "absent")
          => /\ Exc = "KeyError"
             /\ "get_stack_component" \in Steps
             /\ Steps \subseteq {"Client().zen_store", "get_stack_component"}
       /\ (IndexInRange /\ StoreState = "no_deps")
          => /\ Cond = "store unavailable"
             /\ "from_model" \in Steps
             /\ Steps \subseteq LookupSteps
       /\ (IndexInRange /\ StoreState = "ok")
          => /\ Cond \in {"returned", "visualization missing",
                           "store cannot open file"}
             /\ \A i \in At("get_stack_component"), j \in At("from_model"),
                   k \in At("open") : i < j /\ j < k
             /\ At("get_stack_component") # {}
             /\ At("from_model") # {}
             /\ At("open") # {}
             /\ \A i \in At("Client().zen_store"),
                   j \in At("get_stack_component") : i < j

\* An index past the end was asked of a record whose store was deleted: the
\* index is what was reported, and nothing was looked up.
C15_Witness ==
    /\ LastVis
    /\ Count = 1
    /\ last.index = 1
    /\ StoreState = "none"
    /\ Cond = "index out of range"
    /\ last.call.trace = <<>>

\* An empty list on a record whose store cannot be instantiated.
C15_WitnessEmpty ==
    /\ LastVis
    /\ Count = 0
    /\ StoreState = "no_deps"
    /\ Cond = "no visualizations"
    /\ Steps \cap LookupSteps = {}

====
